---- MODULE Spec2Model ----
(***************************************************************************)
(* Resume parser service (src/app.py): the two request handlers            *)
(* parse_resume and parse_resume_pdf, the PDF text extraction with its     *)
(* OCR fallback, the phone validator and the field-resolution cascade of   *)
(* extract_info_with_spacy_regex.                                          *)
(*                                                                         *)
(* A Python str is a sequence of one-character strings.  The collaborators *)
(* (spaCy's nlp, PyMuPDF, pytesseract, nameparser) are the environment:    *)
(* what they return is part of the request drawn by each action, and every *)
(* call made to them is appended to the call log.                          *)
(***************************************************************************)
EXTENDS Integers, Sequences, FiniteSets, TLC

VARIABLES request, response, calls, number, valid

vars == <<request, response, calls, number, valid>>

(***************************************************************************)
(* Characters and the str methods the code uses.                           *)
(***************************************************************************)
LowerSeq == <<"a","b","c","d","e","f","g","h","i","j","k","l","m",
              "n","o","p","q","r","s","t","u","v","w","x","y","z">>

UpperSeq == <<"A","B","C","D","E","F","G","H","I","J","K","L","M",
              "N","O","P","Q","R","S","T","U","V","W","X","Y","Z">>

Range(f) == {f[i] : i \in DOMAIN f}

Lower == Range(LowerSeq)

Upper == Range(UpperSeq)

Letter == Lower \cup Upper

Digit == {"0","1","2","3","4","5","6","7","8","9"}

\* \s, and what str.strip() removes
Space == {" ", "\t", "\n"}

\* \w
Word == Letter \cup Digit \cup {"_"}

\* the two cases of a letter (re.IGNORECASE), the character itself otherwise
BothCases(c) ==
    IF c \in Letter
    THEN LET i == CHOOSE j \in 1..26 : LowerSeq[j] = c \/ UpperSeq[j] = c
         IN {LowerSeq[i], UpperSeq[i]}
    ELSE {c}

\* s * n
Rep(s, n) == [i \in 1..(n * Len(s)) |-> s[((i - 1) % Len(s)) + 1]]

RECURSIVE LStrip(_)
LStrip(s) == IF s # <<>> /\ Head(s) \in Space THEN LStrip(Tail(s)) ELSE s

RECURSIVE RStrip(_)
RStrip(s) ==
    IF s # <<>> /\ s[Len(s)] \in Space THEN RStrip(SubSeq(s, 1, Len(s) - 1)) ELSE s

\* str.strip()
Strip(s) == RStrip(LStrip(s))

\* the k-th smallest element of a set of integers
Nth(S, k) == CHOOSE x \in S : Cardinality({y \in S : y <= x}) = k

\* str.splitlines(): the text between line breaks, with no empty last line
\* after a final line break
splitlines(s) ==
    LET breaks == {i \in 1..Len(s) : s[i] = "\n"}
        n == Cardinality(breaks)
        from(k) == IF k = 1 THEN 1 ELSE Nth(breaks, k - 1) + 1
        to(k) == IF k <= n THEN Nth(breaks, k) - 1 ELSE Len(s)
        count == IF s # <<>> /\ s[Len(s)] # "\n" THEN n + 1 ELSE n
    IN [k \in 1..count |-> SubSeq(s, from(k), to(k))]

(***************************************************************************)
(* Regular expressions, matched as Python's re matches them: leftmost      *)
(* start, greedy repetition with backtracking, alternatives in order.      *)
(* A pattern is a sequence of alternatives (an optional group present      *)
(* before absent), an alternative a sequence of items.                     *)
(***************************************************************************)
\* a character class repeated lo..hi times (hi = -1: no upper limit)
Cls(cs, lo, hi) == [t |-> "cls", cs |-> cs, lo |-> lo, hi |-> hi]

One(cs) == Cls(cs, 1, 1)

Plus(cs) == Cls(cs, 1, -1)

Star(cs) == Cls(cs, 0, -1)

\* \b
Wb == [t |-> "wb", cs |-> {}, lo |-> 0, hi |-> 0]

\* ^ (without re.MULTILINE)
Bos == [t |-> "bos", cs |-> {}, lo |-> 0, hi |-> 0]

\* the opening parenthesis of capture group 1
Cap == [t |-> "cap", cs |-> {}, lo |-> 0, hi |-> 0]

\* a literal string; ci: under re.IGNORECASE
Lit(str, ci) == [j \in 1..Len(str) |-> One(IF ci THEN BothCases(str[j]) ELSE {str[j]})]

IsWordAt(s, i) == i >= 1 /\ i <= Len(s) /\ s[i] \in Word

\* \b holds between s[i-1] and s[i]
IsBoundary(s, i) == IsWordAt(s, i - 1) # IsWordAt(s, i)

\* how many characters of class cs follow at s[i], at most hi of them
RunLen(s, i, cs, hi) ==
    LET last == IF hi >= 0 /\ i + hi - 1 < Len(s) THEN i + hi - 1 ELSE Len(s)
        others == {j \in i..last : s[j] \notin cs}
    IN IF others = {} THEN last + 1 - i
       ELSE (CHOOSE j \in others : \A o \in others : j <= o) - i

NoMatch == [end |-> 0, cap |-> 0]

RECURSIVE MatchFrom(_, _, _, _, _)
RECURSIVE TryCounts(_, _, _, _, _, _)
\* items k.. of alternative re matched at s[i]: the position after the match
\* (0: none) and where group 1 opened
MatchFrom(re, k, s, i, cap) ==
    IF k > Len(re) THEN [end |-> i, cap |-> cap]
    ELSE LET it == re[k] IN
         CASE it.t = "wb"  -> IF IsBoundary(s, i) THEN MatchFrom(re, k + 1, s, i, cap)
                              ELSE NoMatch
           [] it.t = "bos" -> IF i = 1 THEN MatchFrom(re, k + 1, s, i, cap) ELSE NoMatch
           [] it.t = "cap" -> MatchFrom(re, k + 1, s, i, i)
           [] OTHER        -> TryCounts(re, k, s, i, cap, RunLen(s, i, it.cs, it.hi))

\* greedy: n repetitions of item k first, then fewer, down to its minimum
TryCounts(re, k, s, i, cap, n) ==
    IF n < re[k].lo THEN NoMatch
    ELSE LET r == MatchFrom(re, k + 1, s, i + n, cap) IN
         IF r.end # 0 THEN r ELSE TryCounts(re, k, s, i, cap, n - 1)


NotFound == [found |-> FALSE, start |-> 0, end |-> 0, cap |-> 0]

RECURSIVE MatchAlts(_, _, _, _)
\* the alternatives a.. of pattern p at s[i], the first that matches
MatchAlts(p, a, s, i) ==
    IF a > Len(p) THEN NotFound
    ELSE LET r == MatchFrom(p[a], 1, s, i, 0) IN
         IF r.end # 0 THEN [found |-> TRUE, start |-> i, end |-> r.end, cap |-> r.cap]
         ELSE MatchAlts(p, a + 1, s, i)

\* re.match(p, s)
re_match(p, s) == MatchAlts(p, 1, s, 1)

\* re.search(p, s): the match at the leftmost position that has one
re_search(p, s) ==
    LET starts == {i \in 1..(Len(s) + 1) : MatchAlts(p, 1, s, i).found}
    IN IF starts = {} THEN NotFound
       ELSE MatchAlts(p, 1, s, CHOOSE i \in starts : \A j \in starts : i <= j)

\* m.group()
group(s, m) == SubSeq(s, m.start, m.end - 1)

\* m.group(1), for a pattern whose group 1 closes at the end of the pattern
group1(s, m) == SubSeq(s, m.cap, m.end - 1)

RECURSIVE SubDigits(_)
\* re.sub(r"[^\d]", "", s)
SubDigits(s) ==
    IF s = <<>> THEN <<>>
    ELSE IF Head(s) \in Digit THEN <<Head(s)>> \o SubDigits(Tail(s))
    ELSE SubDigits(Tail(s))

\* r"(?i)^([A-Z][a-z]+)\s+([A-Z][a-z]+)"
NAME_LINE_RE ==
    << <<Bos, One(Letter), Plus(Letter), Plus(Space), One(Letter), Plus(Letter)>> >>

\* r"(?i)^name[:\s]*([A-Z][a-z]+\s[A-Z][a-z]+)"
NAME_LABEL_RE ==
    << <<Bos>> \o Lit(<<"n","a","m","e">>, TRUE)
       \o <<Star({":"} \cup Space), Cap, One(Letter), Plus(Letter), One(Space),
            One(Letter), Plus(Letter)>> >>

\* r"\b[a-zA-Z0-9_.+-]+@[a-zA-Z0-9-]+\.[a-zA-Z0-9-.]+\b"
EMAIL_RE ==
    << <<Wb, Plus(Letter \cup Digit \cup {"_", ".", "+", "-"}), One({"@"}),
         Plus(Letter \cup Digit \cup {"-"}), One({"."}),
         Plus(Letter \cup Digit \cup {"-", "."}), Wb>> >>

\* r"\b(?:\+91[\s\-]*)?\d{10,13}\b"
PHONE_RE ==
    << <<Wb>> \o Lit(<<"+","9","1">>, FALSE)
              \o <<Star(Space \cup {"-"}), Cls(Digit, 10, 13), Wb>>,
       <<Wb, Cls(Digit, 10, 13), Wb>> >>

\* (https?://)?
SchemeRe == Lit(<<"h","t","t","p">>, TRUE) \o <<Cls({"s", "S"}, 0, 1)>>
            \o Lit(<<":","/","/">>, TRUE)

\* (www\.)?
WwwRe == Lit(<<"w","w","w",".">>, TRUE)

\* (https?://)?(www\.)? followed by rest, re.IGNORECASE
WithOptionalPrefixes(rest) ==
    <<SchemeRe \o WwwRe \o rest, SchemeRe \o rest, WwwRe \o rest, rest>>

\* r"(https?://)?(www\.)?linkedin\.com/in/[a-zA-Z0-9_-]+", re.IGNORECASE
LINKEDIN_RE ==
    WithOptionalPrefixes(
        Lit(<<"l","i","n","k","e","d","i","n",".","c","o","m","/","i","n","/">>, TRUE)
        \o <<Plus(Letter \cup Digit \cup {"_", "-"})>>)

\* r"(https?://)?(www\.)?github\.com/[a-zA-Z0-9_-]+", re.IGNORECASE
GITHUB_RE ==
    WithOptionalPrefixes(
        Lit(<<"g","i","t","h","u","b",".","c","o","m","/">>, TRUE)
        \o <<Plus(Letter \cup Digit \cup {"_", "-"})>>)

(***************************************************************************)
(* Validator.                                                              *)
(***************************************************************************)
\* the digit-count limits of is_valid_phone
MinPhoneDigits == 10

MaxPhoneDigits == 13

\* faulty variant: the upper limit taken as exclusive
is_valid_phone_exclusive(num) ==
    LET cleaned == SubDigits(num)
    IN MinPhoneDigits <= Len(cleaned) /\ Len(cleaned) < MaxPhoneDigits

is_valid_phone(num) ==
    LET cleaned == SubDigits(num)
    IN MinPhoneDigits <= Len(cleaned) /\ Len(cleaned) <= MaxPhoneDigits

(***************************************************************************)
(* NameSplitter: nameparser's HumanName on a name without titles,          *)
(* suffixes, prefixes, nicknames or commas: the whitespace-separated       *)
(* parts, the first one the first name, the last one of two or more the    *)
(* last name.                                                              *)
(***************************************************************************)
RECURSIVE SplitWords(_, _, _)
SplitWords(s, i, cur) ==
    IF i > Len(s) THEN (IF cur = <<>> THEN <<>> ELSE <<cur>>)
    ELSE IF s[i] \in Space
         THEN (IF cur = <<>> THEN <<>> ELSE <<cur>>) \o SplitWords(s, i + 1, <<>>)
    ELSE SplitWords(s, i + 1, Append(cur, s[i]))

HumanName(full_name) ==
    LET parts == SplitWords(full_name, 1, <<>>)
    IN [first |-> IF Len(parts) >= 1 THEN parts[1] ELSE <<>>,
        last  |-> IF Len(parts) >= 2 THEN parts[Len(parts)] ELSE <<>>]

(***************************************************************************)
(* FieldResolver: extract_info_with_spacy_regex.  A state of the function  *)
(* is its dict extracted_info and the log of collaborator calls.           *)
(***************************************************************************)
\* d[k] = v
SetKey(d, k, v) == [x \in DOMAIN d \cup {k} |-> IF x = k THEN v ELSE d[x]]

\* the log of collaborator calls of one request
NoCalls == [nlp |-> <<>>, HumanName |-> <<>>, open |-> 0, get_text |-> <<>>, ocr |-> <<>>]

\* lines 49-55
InitialInfo ==
    [x \in {"name", "email", "phone", "location", "skills"} |-> <<>>]

\* faulty variant: a SKILL span whose text is already listed is dropped
EntStepDedup(info, ent) ==
    IF ent.label_ = "PERSON" /\ info["name"] = <<>>
    THEN SetKey(info, "name", Strip(ent.text))
    ELSE IF ent.label_ \in {"GPE", "LOC"} /\ info["location"] = <<>>
    THEN SetKey(info, "location", Strip(ent.text))
    ELSE IF ent.label_ = "SKILL"
            /\ \A i \in 1..Len(info["skills"]) : info["skills"][i] # Strip(ent.text)
    THEN SetKey(info, "skills", Append(info["skills"], Strip(ent.text)))
    ELSE info

\* lines 60-65, one entity
EntStep(info, ent) ==
    IF ent.label_ = "PERSON" /\ info["name"] = <<>>
    THEN SetKey(info, "name", Strip(ent.text))
    ELSE IF ent.label_ \in {"GPE", "LOC"} /\ info["location"] = <<>>
    THEN SetKey(info, "location", Strip(ent.text))
    ELSE IF ent.label_ = "SKILL"
    THEN SetKey(info, "skills", Append(info["skills"], Strip(ent.text)))
    ELSE info

RECURSIVE EntLoop(_, _, _)
\* lines 59-65
EntLoop(ents, i, info) ==
    IF i > Len(ents) THEN info ELSE EntLoop(ents, i + 1, EntStep(info, ents[i]))

\* lines 69-71, 79-81, 89-91
SplitName(st) ==
    LET parsed_name == HumanName(st.info["name"])
    IN [info  |-> SetKey(SetKey(st.info, "First Name", Strip(parsed_name.first)),
                         "Last Name", Strip(parsed_name.last)),
        calls |-> [st.calls EXCEPT !.HumanName = Append(@, st.info["name"])]]

\* faulty variant: the name is split whether or not an entity resolved it
ParseNameAlways(st) == SplitName(st)

\* lines 68-71
ParseName(st) == IF st.info["name"] # <<>> THEN SplitName(st) ELSE st

\* how many leading lines the first name fallback reads
NameScanLines == 10

RECURSIVE LineScan(_, _, _, _)
\* lines 75-82: the first of the lines i..n that matches
LineScan(st, lines, i, n) ==
    IF i > n THEN st
    ELSE LET line == Strip(lines[i])
             name_match == re_match(NAME_LINE_RE, line)
         IN IF name_match.found
            THEN SplitName([st EXCEPT !.info =
                                SetKey(@, "name", Strip(group(line, name_match)))])
            ELSE LineScan(st, lines, i + 1, n)

\* faulty variant: the first lines are read even when the name is resolved
NameFromFirstLinesAlways(st, lines) ==
    LineScan(st, lines, 1,
             IF Len(lines) < NameScanLines THEN Len(lines) ELSE NameScanLines)

\* lines 74-82
NameFromFirstLines(st, lines) ==
    IF st.info["name"] = <<>>
    THEN LineScan(st, lines, 1,
                  IF Len(lines) < NameScanLines THEN Len(lines) ELSE NameScanLines)
    ELSE st

RECURSIVE LabelScan(_, _, _)
\* lines 85-92
LabelScan(st, lines, i) ==
    IF i > Len(lines) THEN st
    ELSE LET line == Strip(lines[i])
             match == re_search(NAME_LABEL_RE, line)
         IN IF match.found
            THEN SplitName([st EXCEPT !.info =
                                SetKey(@, "name", Strip(group1(line, match)))])
            ELSE LabelScan(st, lines, i + 1)

\* lines 84-92
NameFromLabel(st, lines) ==
    IF st.info["name"] = <<>> THEN LabelScan(st, lines, 1) ELSE st

\* lines 95-97
Email(info, text) ==
    LET email_match == re_search(EMAIL_RE, text)
    IN IF email_match.found THEN SetKey(info, "email", group(text, email_match))
       ELSE info

\* line 100
PhoneCandidates(ents) ==
    LET phones == SelectSeq(ents, LAMBDA ent : ent.label_ = "PHONE")
    IN [i \in 1..Len(phones) |-> Strip(phones[i].text)]

RECURSIVE PhoneLoop(_, _, _)
\* lines 101-104
PhoneLoop(info, phone_candidates, i) ==
    IF i > Len(phone_candidates) THEN info
    ELSE IF is_valid_phone(phone_candidates[i])
    THEN SetKey(info, "phone", phone_candidates[i])
    ELSE PhoneLoop(info, phone_candidates, i + 1)

\* faulty variant: the fallback match is taken without validation
PhoneFallbackUnchecked(info, text) ==
    IF info["phone"] = <<>>
    THEN LET fallback_match == re_search(PHONE_RE, text)
         IN IF fallback_match.found
            THEN SetKey(info, "phone", group(text, fallback_match))
            ELSE info
    ELSE info

\* lines 107-110
PhoneFallback(info, text) ==
    IF info["phone"] = <<>>
    THEN LET fallback_match == re_search(PHONE_RE, text)
         IN IF fallback_match.found /\ is_valid_phone(group(text, fallback_match))
            THEN SetKey(info, "phone", group(text, fallback_match))
            ELSE info
    ELSE info

\* lines 113-115 and 118-120
Link(info, key, pattern, text) ==
    LET link_match == re_search(pattern, text)
    IN IF link_match.found THEN SetKey(info, key, group(text, link_match)) ELSE info

\* lines 57-92: the entity loop and the name cascade
ResolveName(lines, ents, log) ==
    NameFromLabel(
        NameFromFirstLines(
            ParseName([info |-> EntLoop(ents, 1, InitialInfo), calls |-> log]),
            lines),
        lines)

\* lines 94-120: email, phone and the two links
ResolveContacts(info, text, ents) ==
    Link(Link(PhoneFallback(PhoneLoop(Email(info, text), PhoneCandidates(ents), 1), text),
              "linkedin", LINKEDIN_RE, text),
         "github", GITHUB_RE, text)

\* lines 57-122, after nlp(text) has returned its entities
ResolveFields(text, ents, log) ==
    [ResolveName(splitlines(text), ents, log) EXCEPT
        !.info = ResolveContacts(@, text, ents)]

\* an operation's outcome: it returned value, or raised exc
Returned(value, log) == [raised |-> FALSE, exc |-> "", value |-> value, calls |-> log]

Raised(exc, log) == [raised |-> TRUE, exc |-> exc, value |-> <<>>, calls |-> log]

\* a request in which no collaborator fails
NoFault == [site |-> "none", page |-> 0]

\* lines 47-122; ents is what nlp(text) yields, unless fault has it raise
extract_info_with_spacy_regex(text, ents, fault, log) ==
    LET called == [log EXCEPT !.nlp = Append(@, text)]
    IN IF fault.site = "nlp" THEN Raised("nlp", called)
       ELSE LET r == ResolveFields(text, ents, called)
            IN Returned(r.info, r.calls)

(***************************************************************************)
(* Documents.  A text is made of pieces, and the recognizer labels some of *)
(* them: its entities are substrings of the text, in document order, and   *)
(* none of them is blank (the recognizer yields no whitespace-only span).  *)
(* Label "O" marks a piece that is no entity.  A PDF page has a text layer *)
(* and the text OCR reads from its rendered image.                         *)
(***************************************************************************)
Piece(s, label) == [s |-> s, label |-> label]

RECURSIVE Text(_)
Text(doc) == IF doc = <<>> THEN <<>> ELSE Head(doc).s \o Text(Tail(doc))

\* doc.ents of nlp(Text(doc))
Ents(doc) ==
    LET labelled == SelectSeq(doc, LAMBDA p : p.label # "O")
    IN [i \in 1..Len(labelled) |-> [text |-> labelled[i].s, label_ |-> labelled[i].label]]

RECURSIVE LayerDoc(_)
\* what page.get_text() yields, page after page
LayerDoc(pages) ==
    IF pages = <<>> THEN <<>> ELSE Head(pages).layer \o LayerDoc(Tail(pages))

RECURSIVE OcrDoc(_)
\* what image_to_string yields, page after page, with the "\n" the code adds
OcrDoc(pages) ==
    IF pages = <<>> THEN <<>>
    ELSE Head(pages).ocr \o <<Piece(<<"\n">>, "O")>> \o OcrDoc(Tail(pages))

\* doc.ents of nlp(text), text being one of the two texts of the PDF
EntsOfText(pages, text) ==
    IF text = Text(LayerDoc(pages)) THEN Ents(LayerDoc(pages)) ELSE Ents(OcrDoc(pages))

(***************************************************************************)
(* PDF text extraction.                                                    *)
(***************************************************************************)
\* the text-layer length below which the PDF is read by OCR
OcrThreshold == 100

\* fitz.open: the n-th open of the request raises when the fault says so
OpenRaises(fault, log) == fault.site = "open" /\ fault.page = log.open + 1

RECURSIVE OcrLoop(_, _, _, _, _)
\* lines 22-26
OcrLoop(pages, i, text, fault, log) ==
    IF i > Len(pages) THEN Returned(text, log)
    ELSE LET called == [log EXCEPT !.ocr = Append(@, i)]
         IN IF fault.site = "ocr" /\ fault.page = i THEN Raised("image_to_string", called)
            ELSE OcrLoop(pages, i + 1, text \o Text(pages[i].ocr) \o <<"\n">>,
                         fault, called)

\* faulty variant: the OCR text is appended to the text layer
extract_text_with_ocr_appending(pages, fault, log) ==
    IF OpenRaises(fault, log) THEN Raised("fitz.open", [log EXCEPT !.open = @ + 1])
    ELSE OcrLoop(pages, 1, Text(LayerDoc(pages)), fault, [log EXCEPT !.open = @ + 1])

\* lines 19-28
extract_text_with_ocr(pages, fault, log) ==
    IF OpenRaises(fault, log) THEN Raised("fitz.open", [log EXCEPT !.open = @ + 1])
    ELSE OcrLoop(pages, 1, <<>>, fault, [log EXCEPT !.open = @ + 1])

RECURSIVE GetTextLoop(_, _, _, _)
\* lines 34-35
GetTextLoop(pages, i, text, log) ==
    IF i > Len(pages) THEN Returned(text, log)
    ELSE GetTextLoop(pages, i + 1, text \o Text(pages[i].layer),
                     [log EXCEPT !.get_text = Append(@, i)])

\* faulty variant: the text layer is measured without stripping it
extract_text_from_pdf_unstripped(pages, fault, log) ==
    IF OpenRaises(fault, log) THEN Raised("fitz.open", [log EXCEPT !.open = @ + 1])
    ELSE LET r == GetTextLoop(pages, 1, <<>>, [log EXCEPT !.open = @ + 1])
         IN IF Len(r.value) < OcrThreshold
            THEN extract_text_with_ocr(pages, fault, r.calls)
            ELSE r

\* lines 31-39
extract_text_from_pdf(pages, fault, log) ==
    IF OpenRaises(fault, log) THEN Raised("fitz.open", [log EXCEPT !.open = @ + 1])
    ELSE LET r == GetTextLoop(pages, 1, <<>>, [log EXCEPT !.open = @ + 1])
         IN IF Len(Strip(r.value)) < OcrThreshold
            THEN extract_text_with_ocr(pages, fault, r.calls)
            ELSE r

(***************************************************************************)
(* The request handlers.                                                   *)
(***************************************************************************)
HTTPException(status_code, prefix, cause) ==
    [status |-> status_code, detail |-> <<prefix, cause>>]

Ok(parsed_data) == [status |-> 200, body |-> parsed_data]

\* lines 138-143, the body of the try
TryParsePdf(content_type, pages, fault) ==
    IF content_type # "application/pdf" THEN Raised("400: File must be a PDF", NoCalls)
    ELSE LET t == extract_text_from_pdf(pages, fault, NoCalls)
         IN IF t.raised THEN t
            ELSE extract_info_with_spacy_regex(t.value, EntsOfText(pages, t.value),
                                               fault, t.calls)

\* faulty variant: a failure is answered with what had been extracted so far
PdfResponsePartial(r) == Ok(r.value)

\* lines 144-145
PdfResponse(r) ==
    IF r.raised THEN HTTPException(500, "Error processing PDF", r.exc) ELSE Ok(r.value)

\* lines 132-133
TextResponse(r) ==
    IF r.raised THEN HTTPException(500, "Error processing resume", r.exc) ELSE Ok(r.value)

Init ==
    /\ request = [op |-> "none"]
    /\ response = [status |-> 0]
    /\ calls = NoCalls
    /\ number = <<>>
    /\ valid = FALSE

\* no request is being served
Idle == request.op = "none"

\* POST /parse_resume
parse_resume(text, ents, fault) ==
    LET r == extract_info_with_spacy_regex(text, ents, fault, NoCalls)
    IN /\ request' = [op |-> "parse_resume", text |-> text, ents |-> ents,
                      fault |-> fault]
       /\ response' = TextResponse(r)
       /\ calls' = r.calls
       /\ UNCHANGED <<number, valid>>

\* POST /parse_resume_pdf
parse_resume_pdf(content_type, pages, fault) ==
    LET r == TryParsePdf(content_type, pages, fault)
    IN /\ request' = [op |-> "parse_resume_pdf", content_type |-> content_type,
                      pages |-> pages, fault |-> fault]
       /\ response' = PdfResponse(r)
       /\ calls' = r.calls
       /\ UNCHANGED <<number, valid>>

\* the handler or call has returned or raised (lines 44, 131, 133, 143, 145):
\* its locals are gone, the next request starts afresh
send_response ==
    /\ ~Idle
    /\ request' = [op |-> "none"]
    /\ response' = [status |-> 0]
    /\ calls' = NoCalls
    /\ number' = <<>>
    /\ valid' = FALSE

\* a call of is_valid_phone
check_phone(num) ==
    /\ request' = [op |-> "is_valid_phone"]
    /\ number' = num
    /\ valid' = is_valid_phone(num)
    /\ UNCHANGED <<response, calls>>

(***************************************************************************)
(* The requests checked.                                                   *)
(***************************************************************************)
\* pieces per text, pages per PDF, characters per phone candidate
MaxPieces == 3

MaxPages == 2

MaxPhoneLen == 14

SeqsUpTo(S, n) == UNION {[1..k -> S] : k \in 0..n}

\* n lines that match no name pattern
Filler(n) == Rep(<<"-","\n">>, n)

JaneDoe == <<"J","a","n","e"," ","D","o","e">>

JohnSmithLine ==
    <<"J","o","h","n"," ","S","m","i","t","h"," ","w","o","r","k","s"," ",
      "h","e","r","e","\n">>

NameAliceLine ==
    <<"N","a","m","e",":"," ","A","l","i","c","e"," ","J","o","h","n","s","o","n","\n">>

\* matches both name patterns, with different results
NameBobLine ==
    <<" "," ","N","A","M","E"," ","B","o","b"," ","R","a","y"," ","x","\n">>

NamePieces ==
    {Piece(JaneDoe, "PERSON"),
     Piece(<<"R","a","j"," ","R","a","o","\n">>, "PERSON"),
     Piece(JohnSmithLine, "O"),
     Piece(NameAliceLine, "O"),
     Piece(NameBobLine, "O"),
     Piece(Filler(1), "O"),
     Piece(Filler(NameScanLines - 1), "O")}

FieldPieces ==
    {Piece(JaneDoe, "PERSON"),
     Piece(<<"P","y","t","h","o","n">>, "SKILL"),
     Piece(<<" ","G","o"," ">>, "SKILL"),
     Piece(<<"G","o","a","\n">>, "LOC"),
     Piece(<<"h","t","t","p","s",":","/","/","w","w","w",".","L","i","n","k","e","d",
             "I","n",".","c","o","m","/","i","n","/","j","-","d","\n">>, "O"),
     Piece(<<"G","I","T","H","U","B",".","C","O","M","/","j","d">>, "O"),
     Piece(<<"M","a","i","l"," ","j",".","d","@","x","-","y",".","o","r","g"," ",
             "n","o","w","\n">>, "O")}

TenDigits == <<"9","8","7","6","5","4","3","2","1","0">>

PhonePieces ==
    {Piece(<<"+","9","1"," ","9","8","7","6","5"," ","4","3","2","1","0">>, "PHONE"),
     Piece(<<" ","9","8","7","6","5","-","4","3","2","1","0","\n">>, "PHONE"),
     Piece(<<"9","8","7","6","5">>, "PHONE"),
     Piece(TenDigits, "O"),
     Piece(<<"x","+","9","1"," ">>, "O"),
     Piece(<<"1","2","3">>, "O"),
     Piece(<<"4">>, "O"),
     Piece(<<" ">>, "O")}

\* text layers around the threshold, and a short one with an entity
PageLayers ==
    {<<>>,
     <<Piece(Rep(<<"#">>, OcrThreshold \div 2), "O")>>,
     <<Piece(Rep(<<"#">>, OcrThreshold \div 2 - 1) \o <<" ">>, "O")>>,
     <<Piece(JaneDoe, "PERSON")>>}

PageOcrs ==
    {<<Piece(<<"P","y","t","h","o","n">>, "SKILL")>>,
     <<Piece(<<"J","o","h","n"," ","S","m","i","t","h">>, "O")>>}

Pages == [layer : PageLayers, ocr : PageOcrs]

Pdfs == SeqsUpTo(Pages, MaxPages) \ {<<>>}

ContentTypes == {"application/pdf", "text/plain"}

Fault(site, page) == [site |-> site, page |-> page]

TextFaults == {NoFault, Fault("nlp", 0)}

\* fitz.open is called at most twice, OCR once per page
PdfFaults(pages) ==
    TextFaults \cup {Fault("open", n) : n \in 1..2}
               \cup {Fault("ocr", i) : i \in 1..Len(pages)}

PhoneStrings ==
    SeqsUpTo({"7", "-"}, MaxPhoneLen)
    \cup {<<"+","9","1"," ","9","8","7","6","5"," ","4","3","2","1","0">>}

\* one request or call is served at a time, each from a fresh start
TextRequest ==
    /\ Idle
    /\ \E doc \in SeqsUpTo(FieldPieces, MaxPieces), fault \in TextFaults :
           parse_resume(Text(doc), Ents(doc), fault)

PdfRequest ==
    /\ Idle
    /\ \E content_type \in ContentTypes, pages \in Pdfs :
           \E fault \in PdfFaults(pages) : parse_resume_pdf(content_type, pages, fault)

NameRequest ==
    /\ Idle
    /\ \E doc \in SeqsUpTo(NamePieces, MaxPieces) :
           parse_resume(Text(doc), Ents(doc), NoFault)

PhoneRequest ==
    /\ Idle
    /\ \E doc \in SeqsUpTo(PhonePieces, MaxPieces) :
           parse_resume(Text(doc), Ents(doc), NoFault)

ValidatorCall == Idle /\ \E num \in PhoneStrings : check_phone(num)

Next == TextRequest \/ PdfRequest \/ send_response

Spec == Init /\ [][Next]_vars

SpecName == Init /\ [][NameRequest \/ send_response]_vars

SpecPhone == Init /\ [][PhoneRequest \/ send_response]_vars

SpecValidator == Init /\ [][ValidatorCall \/ send_response]_vars

(***************************************************************************)
(* Properties.                                                             *)
(***************************************************************************)
Served(op) == request.op = op

Succeeded == response.status = 200

Min(S) == CHOOSE x \in S : \A y \in S : x <= y

\* the number of digit characters of s
DigitCount(s) == Cardinality({i \in 1..Len(s) : s[i] \in Digit})

\* C1: is_valid_phone returns true if and only if the candidate holds between
\* 10 and 13 digit characters, whatever else it holds.
C1_ValidIffTenToThirteenDigits ==
    Served("is_valid_phone") =>
        (valid <=> (DigitCount(number) >= 10 /\ DigitCount(number) <= 13))

C1_Witness ==
    /\ Served("is_valid_phone")
    /\ valid
    /\ DigitCount(number) = 13
    /\ Len(number) > 13

\* C2: a declared content type other than application/pdf is answered with the
\* bad-input kind (status 400), not the processing-failure kind (500), and no
\* collaborator is called.
C2_NonPdfIsBadInput ==
    (Served("parse_resume_pdf") /\ request.content_type # "application/pdf") =>
        (response.status = 400 /\ calls = NoCalls)

\* the three strategies of the name cascade, stated on the request
PersonSpans(ents) == {i \in 1..Len(ents) : ents[i].label_ = "PERSON"}

FirstLinesMatching(lines) ==
    {i \in 1..Len(lines) : i <= 10 /\ re_match(NAME_LINE_RE, Strip(lines[i])).found}

LabelLinesMatching(lines) ==
    {i \in 1..Len(lines) : re_search(NAME_LABEL_RE, Strip(lines[i])).found}

ExpectedName(text, ents) ==
    LET lines == splitlines(text)
        line(i) == Strip(lines[i])
    IN IF PersonSpans(ents) # {} THEN Strip(ents[Min(PersonSpans(ents))].text)
       ELSE IF FirstLinesMatching(lines) # {}
       THEN LET i == Min(FirstLinesMatching(lines))
            IN group(line(i), re_match(NAME_LINE_RE, line(i)))
       ELSE IF LabelLinesMatching(lines) # {}
       THEN LET i == Min(LabelLinesMatching(lines))
            IN group1(line(i), re_search(NAME_LABEL_RE, line(i)))
       ELSE <<>>

\* C3: the name is that of the first PERSON span; without a PERSON span, the
\* match on the first of the first 10 lines that matches the two-word pattern;
\* without either, the name captured on the first line matching "name:".
C3_NameCascade ==
    (Served("parse_resume") /\ Succeeded) =>
        response.body["name"] = ExpectedName(request.text, request.ents)

\* a "Name: X Y" line beyond line 10 names the person: no PERSON span, a
\* two-word line beyond line 10 too, none among the first 10
C3_Witness ==
    /\ Served("parse_resume") /\ Succeeded
    /\ PersonSpans(request.ents) = {}
    /\ FirstLinesMatching(splitlines(request.text)) = {}
    /\ \E i \in LabelLinesMatching(splitlines(request.text)) : i > 10
    /\ response.body["name"] = <<"A","l","i","c","e"," ","J","o","h","n","s","o","n">>

RequiredFields ==
    {"name", "First Name", "Last Name", "email", "phone", "location", "skills"}

\* C4: every returned record holds name, first name, last name, email, phone,
\* location and skills; linkedin and github are the only other fields, each
\* present exactly when its pattern matches the text.
C4_AllFieldsPresent ==
    (Served("parse_resume") /\ Succeeded) =>
        /\ RequiredFields \subseteq DOMAIN response.body
        /\ DOMAIN response.body \subseteq RequiredFields \cup {"linkedin", "github"}
        /\ "linkedin" \in DOMAIN response.body
               <=> re_search(LINKEDIN_RE, request.text).found
        /\ "github" \in DOMAIN response.body
               <=> re_search(GITHUB_RE, request.text).found

HasValidDigitCount(s) == DigitCount(s) >= 10 /\ DigitCount(s) <= 13

ValidPhoneSpans(ents) ==
    {i \in 1..Len(ents) :
        ents[i].label_ = "PHONE" /\ HasValidDigitCount(Strip(ents[i].text))}

ExpectedPhone(text, ents) ==
    IF ValidPhoneSpans(ents) # {} THEN Strip(ents[Min(ValidPhoneSpans(ents))].text)
    ELSE LET m == re_search(PHONE_RE, text)
         IN IF m.found /\ HasValidDigitCount(group(text, m)) THEN group(text, m)
            ELSE <<>>

\* C5: the phone is the trimmed text of the first PHONE span with 10 to 13
\* digits; without one, the first match of the fallback pattern if that has 10
\* to 13 digits, else empty.  So the phone is empty or has 10 to 13 digits.
C5_PhoneCascade ==
    (Served("parse_resume") /\ Succeeded) =>
        /\ response.body["phone"] = ExpectedPhone(request.text, request.ents)
        /\ response.body["phone"] = <<>> \/ HasValidDigitCount(response.body["phone"])

\* the fallback pattern matches, its match has too many digits, the phone stays empty
C5_Witness ==
    /\ Served("parse_resume") /\ Succeeded
    /\ ValidPhoneSpans(request.ents) = {}
    /\ re_search(PHONE_RE, request.text).found
    /\ response.body["phone"] = <<>>

\* a PDF request that passed the content-type test
PdfServed == Served("parse_resume_pdf") /\ request.content_type = "application/pdf"

\* fitz.open raised before a page of the text layer was read
FirstOpenFailed == request.fault.site = "open" /\ request.fault.page = 1

\* the length of the text layer of all pages, stripped
StrippedLayerLen == Len(Strip(Text(LayerDoc(request.pages))))

\* the request makes a step of the OCR path fail
OcrPathFault == request.fault.site = "ocr" \/ request.fault = Fault("open", 2)

\* the pages OCR read before it was stopped, if it was
OcrPagesRead ==
    IF request.fault = Fault("open", 2) THEN 0
    ELSE IF request.fault.site = "ocr" THEN request.fault.page
    ELSE Len(request.pages)

\* C6: once the text layer is read, 100 or more characters after stripping
\* mean that OCR is never invoked; fewer than 100 mean that OCR is invoked once
\* per page, in page order, up to the page at which the OCR path fails, if any.
C6_OcrPathByTextLayer ==
    (PdfServed /\ ~FirstOpenFailed) =>
        /\ calls.get_text = [i \in 1..Len(request.pages) |-> i]
        /\ StrippedLayerLen >= 100 => calls.ocr = <<>>
        /\ StrippedLayerLen < 100 => calls.ocr = [i \in 1..OcrPagesRead |-> i]

\* a text layer of 100 characters, 99 after stripping: every page is read by OCR
C6_Witness ==
    /\ PdfServed
    /\ Len(Text(LayerDoc(request.pages))) = 100
    /\ StrippedLayerLen = 99
    /\ Len(request.pages) = 2
    /\ calls.ocr = <<1, 2>>

RECURSIVE JoinedWith(_, _)
\* sep.join(strs)
JoinedWith(sep, strs) ==
    IF strs = <<>> THEN <<>>
    ELSE IF Len(strs) = 1 THEN strs[1]
    ELSE strs[1] \o sep \o JoinedWith(sep, Tail(strs))

RECURSIVE EachFollowedBy(_, _)
\* every one of strs with sep after it
EachFollowedBy(sep, strs) ==
    IF strs = <<>> THEN <<>> ELSE strs[1] \o sep \o EachFollowedBy(sep, Tail(strs))

\* what OCR reads from each page
OcrOutputs == [i \in 1..Len(request.pages) |-> Text(request.pages[i].ocr)]

\* the OCR path was taken and returned: its text went to entity extraction
OcrTextReturned == PdfServed /\ StrippedLayerLen < 100 /\ calls.nlp # <<>>

\* C7 as stated: the text of the OCR path is the per-page OCR outputs joined by
\* newlines.
C7_OcrTextNewlineJoined ==
    OcrTextReturned => calls.nlp = <<JoinedWith(<<"\n">>, OcrOutputs)>>

\* C7: the text of the OCR path is the per-page OCR outputs in page order, each
\* followed by a newline (the last one too), and nothing of the text layer.
C7_OcrTextNewlineTerminated ==
    OcrTextReturned => calls.nlp = <<EachFollowedBy(<<"\n">>, OcrOutputs)>>

\* two pages, a text layer that is not empty, and OCR outputs that differ
C7_Witness ==
    /\ OcrTextReturned
    /\ Len(request.pages) = 2
    /\ Text(LayerDoc(request.pages)) # <<>>
    /\ OcrOutputs[1] # OcrOutputs[2]
    /\ calls.nlp[1] = OcrOutputs[1] \o <<"\n">> \o OcrOutputs[2] \o <<"\n">>

\* the step the request makes fail is reached
FaultFires ==
    \/ request.fault.site = "nlp"
    \/ request.fault = Fault("open", 1) /\ Served("parse_resume_pdf")
    \/ OcrPathFault /\ Served("parse_resume_pdf") /\ StrippedLayerLen < 100

\* the cause named by the failure message
FaultCause ==
    CASE request.fault.site = "nlp"  -> "nlp"
      [] request.fault.site = "open" -> "fitz.open"
      [] request.fault.site = "ocr"  -> "image_to_string"
      [] OTHER                       -> ""

\* how often the step that failed was attempted
FailedStepAttempts ==
    CASE request.fault.site = "nlp"  -> Len(calls.nlp)
      [] request.fault.site = "open" -> calls.open - (request.fault.page - 1)
      [] request.fault.site = "ocr"  ->
             Cardinality({i \in 1..Len(calls.ocr) : calls.ocr[i] = request.fault.page})
      [] OTHER                       -> 0

\* C8: a request in which a step fails ends with the processing failure (500)
\* that names the cause, returns no record, has attempted the failed step once
\* and no step after it; a request in which no step fails returns a record with
\* every base field, even if each is empty.
C8_NoPartialSuccessNoRetry ==
    (Served("parse_resume") \/ PdfServed) =>
        IF FaultFires
        THEN /\ response.status = 500
             /\ "body" \notin DOMAIN response
             /\ response.detail[2] = FaultCause
             /\ FailedStepAttempts = 1
             /\ calls.HumanName = <<>>
             /\ request.fault.site # "nlp" => calls.nlp = <<>>
        ELSE /\ response.status = 200
             /\ DOMAIN InitialInfo \subseteq DOMAIN response.body

\* OCR fails at the second page: the first page's text is not returned
C8_Witness ==
    /\ PdfServed
    /\ request.fault = Fault("ocr", 2)
    /\ calls.ocr = <<1, 2>>
    /\ response.status = 500
    /\ response.detail = <<"Error processing PDF", "image_to_string">>

\* the trimmed texts of the SKILL spans, in span order
SkillTexts(ents) ==
    LET spans == SelectSeq(ents, LAMBDA ent : ent.label_ = "SKILL")
    IN [i \in 1..Len(spans) |-> Strip(spans[i].text)]

\* C9: skills is the sequence of the trimmed texts of all SKILL spans, in span
\* order, duplicates kept, nothing from spans of another label.
C9_SkillsInSpanOrder ==
    (Served("parse_resume") /\ Succeeded) =>
        response.body["skills"] = SkillTexts(request.ents)

\* a skill listed twice, a trimmed one and a span of another label between
C9_Witness ==
    /\ Served("parse_resume") /\ Succeeded
    /\ Len(request.ents) = 3
    /\ request.ents[2].label_ # "SKILL"
    /\ response.body["skills"] = << <<"G","o">>, <<"G","o">> >>

\* C10: HumanName is invoked once, on the final name, if a strategy resolved
\* the name, and not at all otherwise; the first and last name returned are
\* those it derives from the final name.
C10_NameSplitOnceOnFinalName ==
    (Served("parse_resume") /\ Succeeded) =>
        IF response.body["name"] # <<>>
        THEN /\ calls.HumanName = <<response.body["name"]>>
             /\ response.body["First Name"] = HumanName(response.body["name"]).first
             /\ response.body["Last Name"] = HumanName(response.body["name"]).last
        ELSE calls.HumanName = <<>>

\* the "name" line resolved the name after both other strategies found none,
\* on a line that the two-word pattern would read differently
C10_Witness ==
    /\ Served("parse_resume") /\ Succeeded
    /\ PersonSpans(request.ents) = {}
    /\ calls.HumanName = << <<"B","o","b"," ","R","a","y">> >>
    /\ response.body["First Name"] = <<"B","o","b">>
    /\ response.body["Last Name"] = <<"R","a","y">>

====
